---------------------------- MODULE Spec2Model ----------------------------
(***************************************************************************)
(* Mathics, mathics/builtin/exptrig.py: the exponential, trigonometric and *)
(* hyperbolic builtins.  Each class declares a rule table (`rules`), and   *)
(* most declare a numeric callback (`eval`, one mpmath primitive) and some *)
(* a symbolic bridge (`to_sympy`).  Pi and E declare `apply_N`, which      *)
(* converts the constant inside a `with workprec(prec)` scope.             *)
(*                                                                         *)
(* The host evaluator (expression type, pattern matcher, registration,     *)
(* _MPMathFunction.apply, get_precision) is imported by the file and not   *)
(* part of it; the definitions that stand for it are modelled from the     *)
(* design document and say so.                                             *)
(***************************************************************************)
EXTENDS Integers, Sequences, FiniteSets, TLC

(***************************************************************************)
(* Bounds of the model.                                                    *)
(***************************************************************************)
\* integers n of the inputs n, n*Pi and E^n range over -MaxN .. MaxN
MaxN == 3
\* host precision scopes that may be open around a call
MaxDepth == 2
\* digits requested of N[Pi, d], N[E, d] range over 1 .. MaxDigits
MaxDigits == 3
\* to_sympy is applied to calls of 0 .. MaxLeaves arguments
MaxLeaves == 2

(***************************************************************************)
(* Expressions (mathics.core.expression): one record shape for atoms and   *)
(* compound expressions, so that any two expressions can be compared.      *)
(***************************************************************************)
AtomHeads == {"Integer", "Rational", "Real", "Symbol", "String"}

Integer(n) ==
    [head |-> "Integer", name |-> "", num |-> n, den |-> 1, prec |-> 0, leaves |-> <<>>]

Rational(p, q) ==
    [head |-> "Rational", name |-> "", num |-> p, den |-> q, prec |-> 0, leaves |-> <<>>]

\* an inexact number p/q carrying its precision in bits
Real(p, q, bits) ==
    [head |-> "Real", name |-> "", num |-> p, den |-> q, prec |-> bits, leaves |-> <<>>]

Symbol(s) ==
    [head |-> "Symbol", name |-> s, num |-> 0, den |-> 1, prec |-> 0, leaves |-> <<>>]

\* rule text the file hands to the host's parser and never reads itself
String(s) ==
    [head |-> "String", name |-> s, num |-> 0, den |-> 1, prec |-> 0, leaves |-> <<>>]

Expression(h, ls) ==
    [head |-> h, name |-> "", num |-> 0, den |-> 1, prec |-> 0, leaves |-> ls]

\* Python's None: a method that falls off its end, or get_precision's refusal
None == Symbol("None")

IsAtom(e) == e.head \in AtomHeads

\* the three special values of the singularity policy
SpecialValues == {Symbol("Infinity"), Symbol("ComplexInfinity"), Symbol("Indeterminate")}

IsInexact(e) == e.head = "Real"

\* FullForm of the pattern syntax: x_ , x_Integer , z:p
Blank(x) == Expression("Pattern", <<Symbol(x), Expression("Blank", <<>>)>>)

BlankOf(x, h) == Expression("Pattern", <<Symbol(x), Expression("Blank", <<Symbol(h)>>)>>)

Named(x, p) == Expression("Pattern", <<Symbol(x), p>>)

Times(a, b) == Expression("Times", <<a, b>>)

Power(a, b) == Expression("Power", <<a, b>>)


(***************************************************************************)
(* Rule tables.  Each `rules = {...}` of the file, entry by entry in the   *)
(* order it is written; the left side is the FullForm of the pattern text  *)
(* and the right side that of the template text.  Derivative templates are *)
(* anonymous functions kept as the text the host parses.                   *)
(***************************************************************************)
Rule(l, r) == [lhs |-> l, rhs |-> r]

Call(f, a) == Expression(f, <<a>>)

\* the meta-pattern Derivative[1][f]
Derivative1(f) == Expression("Derivative", <<Integer(1), Symbol(f)>>)

SymPi == Symbol("Pi")

SymE == Symbol("E")

HalfPi == Times(Rational(1, 2), SymPi)

QuarterPi == Times(Rational(1, 4), SymPi)

\* I / 2 Pi
HalfPiI == Times(Expression("Complex", <<Integer(0), Rational(1, 2)>>), SymPi)

ComplexInfinity == Symbol("ComplexInfinity")

Infinity == Symbol("Infinity")

Indeterminate == Symbol("Indeterminate")

\* the pattern literals 0. and 0.0 (a literal carries machine precision)
Zero == Real(0, 1, 53)

GoldenRatioRules ==
    << Rule(Expression("N", <<Symbol("GoldenRatio"), Blank("prec")>>),
            Expression("N", <<Times(Rational(1, 2),
                                    Expression("Plus", <<Integer(1), Call("Sqrt", Integer(5))>>)),
                              Symbol("prec")>>)) >>

ExpRules ==
    << Rule(Call("Exp", Blank("x")), Power(SymE, Symbol("x"))),
       Rule(Derivative1("Exp"), String("Exp")) >>

\* LogRules with the inexact zero given the exact zero's value
LogRules_conflated ==
    << Rule(Expression("Log", <<Blank("b"), Blank("z")>>),
            Times(Call("Log", Symbol("z")), Power(Call("Log", Symbol("b")), Integer(-1)))),
       Rule(Call("Log", Zero), Call("DirectedInfinity", Integer(-1))),
       Rule(Call("Log", Integer(0)), Call("DirectedInfinity", Integer(-1))),
       Rule(Call("Log", Integer(1)), Integer(0)),
       Rule(Call("Log", SymE), Integer(1)),
       Rule(Call("Log", Power(SymE, BlankOf("x", "Integer"))), Symbol("x")),
       Rule(Derivative1("Log"), String("1/#&")) >>

LogRules ==
    << Rule(Expression("Log", <<Blank("b"), Blank("z")>>),
            Times(Call("Log", Symbol("z")), Power(Call("Log", Symbol("b")), Integer(-1)))),
       Rule(Call("Log", Zero), Indeterminate),
       Rule(Call("Log", Integer(0)), Call("DirectedInfinity", Integer(-1))),
       Rule(Call("Log", Integer(1)), Integer(0)),
       Rule(Call("Log", SymE), Integer(1)),
       Rule(Call("Log", Power(SymE, BlankOf("x", "Integer"))), Symbol("x")),
       Rule(Derivative1("Log"), String("1/#&")) >>

Log2Rules ==
    << Rule(Call("Log2", Blank("x")), Expression("Log", <<Integer(2), Symbol("x")>>)) >>

Log10Rules ==
    << Rule(Call("Log10", Blank("x")), Expression("Log", <<Integer(10), Symbol("x")>>)) >>

\* SinRules with the value at Pi/2 written for Pi
SinRules_pi ==
    << Rule(Call("Sin", SymPi), Integer(1)),
       Rule(Call("Sin", Times(BlankOf("n", "Integer"), SymPi)), Integer(0)),
       Rule(Call("Sin", HalfPi), Integer(1)),
       Rule(Call("Sin", Integer(0)), Integer(0)),
       Rule(Derivative1("Sin"), String("Cos[#]&")) >>

SinRules ==
    << Rule(Call("Sin", SymPi), Integer(0)),
       Rule(Call("Sin", Times(BlankOf("n", "Integer"), SymPi)), Integer(0)),
       Rule(Call("Sin", HalfPi), Integer(1)),
       Rule(Call("Sin", Integer(0)), Integer(0)),
       Rule(Derivative1("Sin"), String("Cos[#]&")) >>

\* CosRules with the sign of the integer multiples not alternating
CosRules_sign ==
    << Rule(Call("Cos", SymPi), Integer(-1)),
       Rule(Call("Cos", Times(BlankOf("n", "Integer"), SymPi)), Integer(-1)),
       Rule(Call("Cos", HalfPi), Integer(0)),
       Rule(Call("Cos", Integer(0)), Integer(1)),
       Rule(Derivative1("Cos"), String("-Sin[#]&")) >>

CosRules ==
    << Rule(Call("Cos", SymPi), Integer(-1)),
       Rule(Call("Cos", Times(BlankOf("n", "Integer"), SymPi)), Power(Integer(-1), Symbol("n"))),
       Rule(Call("Cos", HalfPi), Integer(0)),
       Rule(Call("Cos", Integer(0)), Integer(1)),
       Rule(Derivative1("Cos"), String("-Sin[#]&")) >>

TanRules ==
    << Rule(Call("Tan", HalfPi), ComplexInfinity),
       Rule(Call("Tan", Integer(0)), Integer(0)),
       Rule(Derivative1("Tan"), String("Sec[#]^2&")) >>

SecRules ==
    << Rule(Derivative1("Sec"), String("Sec[#] Tan[#]&")),
       Rule(Call("Sec", Integer(0)), Integer(1)) >>

CscRules ==
    << Rule(Derivative1("Csc"), String("-Cot[#] Csc[#]&")),
       Rule(Call("Csc", Integer(0)), ComplexInfinity) >>

CotRules ==
    << Rule(Derivative1("Cot"), String("-Csc[#]^2&")),
       Rule(Call("Cot", Integer(0)), ComplexInfinity) >>

ArcSinRules ==
    << Rule(Derivative1("ArcSin"), String("1/Sqrt[1-#^2]&")),
       Rule(Call("ArcSin", Integer(0)), Integer(0)),
       Rule(Call("ArcSin", Integer(1)), HalfPi) >>

ArcCosRules ==
    << Rule(Derivative1("ArcCos"), String("-1/Sqrt[1-#^2]&")),
       Rule(Call("ArcCos", Integer(0)), HalfPi),
       Rule(Call("ArcCos", Integer(1)), Integer(0)) >>

ArcTanRules ==
    << Rule(Call("ArcTan", Integer(1)), QuarterPi),
       Rule(Call("ArcTan", Integer(0)), Integer(0)),
       Rule(Derivative1("ArcTan"), String("1/(1+#^2)&")) >>

ArcSecRules ==
    << Rule(Derivative1("ArcSec"), String("1 / (Sqrt[1 - 1/#^2] * #^2)&")),
       Rule(Call("ArcSec", Integer(0)), ComplexInfinity),
       Rule(Call("ArcSec", Integer(1)), Integer(0)) >>

ArcCscRules ==
    << Rule(Derivative1("ArcCsc"), String("-1 / (Sqrt[1 - 1/#^2] * #^2)&")),
       Rule(Call("ArcCsc", Integer(0)), ComplexInfinity),
       Rule(Call("ArcCsc", Integer(1)), HalfPi) >>

ArcCotRules ==
    << Rule(Derivative1("ArcCot"), String("-1/(1+#^2)&")),
       Rule(Call("ArcCot", Integer(0)), HalfPi),
       Rule(Call("ArcCot", Integer(1)), QuarterPi) >>

SinhRules ==
    << Rule(Derivative1("Sinh"), String("Cosh[#]&")) >>

CoshRules ==
    << Rule(Derivative1("Cosh"), String("Sinh[#]&")) >>

TanhRules ==
    << Rule(Derivative1("Tanh"), String("Sech[#1]^2&")) >>

SechRules ==
    << Rule(Derivative1("Sech"), String("-Sech[#1] Tanh[#1]&")) >>

CschRules ==
    << Rule(Call("Csch", Integer(0)), ComplexInfinity),
       Rule(Call("Csch", Zero), ComplexInfinity),
       Rule(Derivative1("Csch"), String("-Coth[#1] Csch[#1]&")) >>

CothRules ==
    << Rule(Call("Coth", Integer(0)), ComplexInfinity),
       Rule(Call("Coth", Zero), ComplexInfinity),
       Rule(Derivative1("Coth"), String("-Csch[#1]^2&")) >>

ArcSinhRules ==
    << Rule(Derivative1("ArcSinh"), String("1/Sqrt[1+#^2]&")) >>

ArcCoshRules ==
    << Rule(Call("ArcCosh", Named("z", Zero)),
            Expression("N", <<HalfPiI, Call("Precision", Symbol("z"))>>)),
       Rule(Derivative1("ArcCosh"), String("1/(Sqrt[#-1]*Sqrt[#+1])&")) >>

ArcTanhRules ==
    << Rule(Derivative1("ArcTanh"), String("1/(1-#^2)&")) >>

ArcSechRules ==
    << Rule(Call("ArcSech", Integer(0)), Infinity),
       Rule(Call("ArcSech", Zero), Indeterminate),
       Rule(Derivative1("ArcSech"), String("-1 / (# * Sqrt[(1-#)/(1+#)] (1+#)) &")) >>

ArcCschRules ==
    << Rule(Call("ArcCsch", Integer(0)), ComplexInfinity),
       Rule(Call("ArcCsch", Zero), ComplexInfinity),
       Rule(Derivative1("ArcCsch"), String("-1 / (Sqrt[1+1/#^2] * #^2) &")) >>

ArcCothRules ==
    << Rule(Call("ArcCoth", Named("z", Zero)),
            Expression("N", <<HalfPiI, Call("Precision", Symbol("z"))>>)),
       Rule(Derivative1("ArcCoth"), String("1/(1-#^2)&")) >>

\* the classes of the file that own a rule table, by the head their rules rewrite
Heads ==
    {"N", "Exp", "Log", "Log2", "Log10", "Sin", "Cos", "Tan", "Sec", "Csc", "Cot",
     "ArcSin", "ArcCos", "ArcTan", "ArcSec", "ArcCsc", "ArcCot",
     "Sinh", "Cosh", "Tanh", "Sech", "Csch", "Coth",
     "ArcSinh", "ArcCosh", "ArcTanh", "ArcSech", "ArcCsch", "ArcCoth"}

\* the rule table of the class registered for head f
rules(f) ==
    CASE f = "N" -> GoldenRatioRules
      [] f = "Exp" -> ExpRules
      [] f = "Log" -> LogRules
      [] f = "Log2" -> Log2Rules
      [] f = "Log10" -> Log10Rules
      [] f = "Sin" -> SinRules
      [] f = "Cos" -> CosRules
      [] f = "Tan" -> TanRules
      [] f = "Sec" -> SecRules
      [] f = "Csc" -> CscRules
      [] f = "Cot" -> CotRules
      [] f = "ArcSin" -> ArcSinRules
      [] f = "ArcCos" -> ArcCosRules
      [] f = "ArcTan" -> ArcTanRules
      [] f = "ArcSec" -> ArcSecRules
      [] f = "ArcCsc" -> ArcCscRules
      [] f = "ArcCot" -> ArcCotRules
      [] f = "Sinh" -> SinhRules
      [] f = "Cosh" -> CoshRules
      [] f = "Tanh" -> TanhRules
      [] f = "Sech" -> SechRules
      [] f = "Csch" -> CschRules
      [] f = "Coth" -> CothRules
      [] f = "ArcSinh" -> ArcSinhRules
      [] f = "ArcCosh" -> ArcCoshRules
      [] f = "ArcTanh" -> ArcTanhRules
      [] f = "ArcSech" -> ArcSechRules
      [] f = "ArcCsch" -> ArcCschRules
      [] f = "ArcCoth" -> ArcCothRules
      [] OTHER -> <<>>

(***************************************************************************)
(* The host's pattern matcher, template substitution and arithmetic        *)
(* normalisation.  A pattern matches structurally: a literal matches the   *)
(* same atom (an exact 0 and an inexact 0. are different atoms; a Real     *)
(* literal matches a Real of the same value at any precision), a typed     *)
(* variable matches an expression with that head, a compound pattern       *)
(* matches leaf by leaf.  A product or power of an Integer variable and a  *)
(* constant also matches the constant alone, the variable bound to 1.      *)
(***************************************************************************)
NoMatch == [ok |-> FALSE, b |-> <<>>]

Bound(b) == [ok |-> TRUE, b |-> b]

SameQ(p, e) ==
    /\ p.head = e.head
    /\ p.name = e.name
    /\ p.num = e.num
    /\ p.den = e.den

IsIntegerVar(p) ==
    /\ p.head = "Pattern"
    /\ p.leaves[2].head = "Blank"
    /\ Len(p.leaves[2].leaves) = 1
    /\ p.leaves[2].leaves[1].name = "Integer"

RECURSIVE Match(_, _)
RECURSIVE MatchLeaves(_, _, _)

MatchLeaves(ps, es, i) ==
    IF i > Len(ps) THEN Bound(<<>>)
    ELSE LET m == Match(ps[i], es[i])
             rest == MatchLeaves(ps, es, i + 1)
         IN  IF m.ok /\ rest.ok THEN Bound(m.b @@ rest.b) ELSE NoMatch

Match(p, e) ==
    IF p.head = "Pattern"
    THEN LET inner == Match(p.leaves[2], e)
         IN  IF inner.ok THEN Bound((p.leaves[1].name :> e) @@ inner.b) ELSE NoMatch
    ELSE IF p.head = "Blank"
    THEN IF Len(p.leaves) = 0 \/ p.leaves[1].name = e.head THEN Bound(<<>>) ELSE NoMatch
    ELSE IF IsAtom(p)
    THEN IF SameQ(p, e) THEN Bound(<<>>) ELSE NoMatch
    ELSE IF e.head = p.head /\ Len(e.leaves) = Len(p.leaves)
    THEN MatchLeaves(p.leaves, e.leaves, 1)
    ELSE IF p.head \in {"Times", "Power"} /\ Len(p.leaves) = 2 /\ IsIntegerVar(p.leaves[1])
    THEN LET m == Match(p.leaves[2], e)
         IN  IF m.ok THEN Bound((p.leaves[1].leaves[1].name :> Integer(1)) @@ m.b) ELSE NoMatch
    ELSE IF p.head \in {"Times", "Power"} /\ Len(p.leaves) = 2 /\ IsIntegerVar(p.leaves[2])
    THEN LET m == Match(p.leaves[1], e)
         IN  IF m.ok THEN Bound((p.leaves[2].leaves[1].name :> Integer(1)) @@ m.b) ELSE NoMatch
    ELSE NoMatch

RECURSIVE Subst(_, _)

\* the template t with the pattern variables of b replaced by what they matched
Subst(t, b) ==
    IF t.head = "Symbol" /\ t.name \in DOMAIN b THEN b[t.name]
    ELSE IF IsAtom(t) THEN t
    ELSE Expression(t.head, [i \in 1 .. Len(t.leaves) |-> Subst(t.leaves[i], b)])

RECURSIVE Normalize(_)

\* the host's arithmetic on products and powers: 0*x, 1*x, x^0, x^1, (-1)^n
Normalize(e) ==
    IF IsAtom(e) THEN e
    ELSE LET ls == [i \in 1 .. Len(e.leaves) |-> Normalize(e.leaves[i])]
         IN  IF e.head = "Times" /\ Len(ls) = 2 /\ ls[1] = Integer(0) THEN Integer(0)
             ELSE IF e.head = "Times" /\ Len(ls) = 2 /\ ls[1] = Integer(1) THEN ls[2]
             ELSE IF e.head = "Power" /\ Len(ls) = 2 /\ ls[2] = Integer(0) THEN Integer(1)
             ELSE IF e.head = "Power" /\ Len(ls) = 2 /\ ls[2] = Integer(1) THEN ls[1]
             ELSE IF e.head = "Power" /\ Len(ls) = 2 /\ ls[1] = Integer(-1)
                     /\ ls[2].head = "Integer"
             THEN Integer(IF ls[2].num % 2 = 0 THEN 1 ELSE -1)
             ELSE Expression(e.head, ls)

\* the entries of f's table whose pattern matches the call e, by declared position
Matching(e) == {i \in 1 .. Len(rules(e.head)) : Match(rules(e.head)[i].lhs, e).ok}

\* the expression entry i of e's table rewrites e to
Rewrite(e, i) ==
    Normalize(Subst(rules(e.head)[i].rhs, Match(rules(e.head)[i].lhs, e).b))

(***************************************************************************)
(* Numeric callbacks.  Each `eval(self, z)` returns one mpmath primitive   *)
(* applied to z; the backend value is kept as the primitive's name applied *)
(* to its argument.                                                        *)
(***************************************************************************)
mpmath(prim, z) == Expression(prim, <<z>>)

Log_eval(z) == mpmath("log", z)

\* Sin without a numeric callback of its own: the base class's eval
Sin_eval_missing(z) == None

Sin_eval(z) == mpmath("sin", z)

Cos_eval(z) == mpmath("cos", z)

Tan_eval(z) == mpmath("tan", z)

Sec_eval(z) == mpmath("sec", z)

Csc_eval(z) == mpmath("csc", z)

Cot_eval(z) == mpmath("cot", z)

ArcSin_eval(z) == mpmath("asin", z)

ArcCos_eval(z) == mpmath("acos", z)

ArcTan_eval(z) == mpmath("atan", z)

ArcSec_eval(z) == mpmath("asec", z)

ArcCsc_eval(z) == mpmath("acsc", z)

ArcCot_eval(z) == mpmath("acot", z)

Sinh_eval(z) == mpmath("sinh", z)

Cosh_eval(z) == mpmath("cosh", z)

Tanh_eval(z) == mpmath("tanh", z)

Sech_eval(z) == mpmath("sech", z)

Csch_eval(z) == mpmath("csch", z)

Coth_eval(z) == mpmath("coth", z)

ArcSinh_eval(z) == mpmath("asinh", z)

ArcCosh_eval(z) == mpmath("acoth", z)

ArcTanh_eval(z) == mpmath("atanh", z)

ArcSech_eval(z) == mpmath("asech", z)

ArcCsch_eval(z) == mpmath("acsch", z)

ArcCoth_eval(z) == mpmath("acoth", z)

\* the classes derived from _MPMathFunction
MPMathFunctions ==
    {"Log", "Sin", "Cos", "Tan", "Sec", "Csc", "Cot",
     "ArcSin", "ArcCos", "ArcTan", "ArcSec", "ArcCsc", "ArcCot",
     "Sinh", "Cosh", "Tanh", "Sech", "Csch", "Coth",
     "ArcSinh", "ArcCosh", "ArcTanh", "ArcSech", "ArcCsch", "ArcCoth"}

\* self.eval(z) for the class registered as f; a class without eval returns None
eval(f, z) ==
    CASE f = "Log" -> Log_eval(z)
      [] f = "Sin" -> Sin_eval(z)
      [] f = "Cos" -> Cos_eval(z)
      [] f = "Tan" -> Tan_eval(z)
      [] f = "Sec" -> Sec_eval(z)
      [] f = "Csc" -> Csc_eval(z)
      [] f = "Cot" -> Cot_eval(z)
      [] f = "ArcSin" -> ArcSin_eval(z)
      [] f = "ArcCos" -> ArcCos_eval(z)
      [] f = "ArcTan" -> ArcTan_eval(z)
      [] f = "ArcSec" -> ArcSec_eval(z)
      [] f = "ArcCsc" -> ArcCsc_eval(z)
      [] f = "ArcCot" -> ArcCot_eval(z)
      [] f = "Sinh" -> Sinh_eval(z)
      [] f = "Cosh" -> Cosh_eval(z)
      [] f = "Tanh" -> Tanh_eval(z)
      [] f = "Sech" -> Sech_eval(z)
      [] f = "Csch" -> Csch_eval(z)
      [] f = "Coth" -> Coth_eval(z)
      [] f = "ArcSinh" -> ArcSinh_eval(z)
      [] f = "ArcCosh" -> ArcCosh_eval(z)
      [] f = "ArcTanh" -> ArcTanh_eval(z)
      [] f = "ArcSech" -> ArcSech_eval(z)
      [] f = "ArcCsch" -> ArcCsch_eval(z)
      [] f = "ArcCoth" -> ArcCoth_eval(z)
      [] OTHER -> None

\* the arguments at which an mpmath primitive has no finite value
BackendPole(prim, z) ==
    \/ /\ z.num = 0
       /\ prim \in {"log", "csc", "cot", "csch", "coth", "asec", "acsc", "asech", "acsch"}
    \/ /\ z.num = z.den
       /\ prim \in {"atanh", "acoth"}

(***************************************************************************)
(* Symbolic bridges.  `sympy_name` is the backend name a class declares    *)
(* ('' when it has none; a class that declares nothing keeps the name the  *)
(* base class derives from its own).  `to_sympy` of a class without a      *)
(* backend name rewrites a one-argument call over a class that has one and *)
(* converts that; for any other argument count it falls off its end.       *)
(***************************************************************************)
sympy_name(f) ==
    CASE f = "ArcSin" -> "asin"
      [] f = "ArcCos" -> "acos"
      [] f = "ArcTan" -> "atan"
      [] f = "ArcCot" -> "acot"
      [] f = "ArcSinh" -> "asinh"
      [] f = "ArcCosh" -> "acosh"
      [] f = "ArcTanh" -> "atanh"
      [] f = "ArcCoth" -> "acoth"
      [] f \in {"ArcSec", "ArcCsc", "Sech", "Csch", "ArcSech", "ArcCsch"} -> ""
      [] OTHER -> f

RECURSIVE Expression_to_sympy(_)

\* Expression.to_sympy(): every head replaced by its backend name
Expression_to_sympy(e) ==
    IF IsAtom(e) THEN e
    ELSE Expression("sympy",
                    <<Symbol(sympy_name(e.head))>>
                    \o [i \in 1 .. Len(e.leaves) |-> Expression_to_sympy(e.leaves[i])])

Sec_to_sympy(expr) ==
    IF Len(expr.leaves) = 1
    THEN Expression_to_sympy(Power(Call("Cos", expr.leaves[1]), Integer(-1)))
    ELSE None

Csc_to_sympy(expr) ==
    IF Len(expr.leaves) = 1
    THEN Expression_to_sympy(Power(Call("Sin", expr.leaves[1]), Integer(-1)))
    ELSE None

ArcSec_to_sympy(expr) ==
    IF Len(expr.leaves) = 1
    THEN Expression_to_sympy(Call("ArcCos", Power(expr.leaves[1], Integer(-1))))
    ELSE None

ArcCsc_to_sympy(expr) ==
    IF Len(expr.leaves) = 1
    THEN Expression_to_sympy(Call("ArcSin", Power(expr.leaves[1], Integer(-1))))
    ELSE None

Sech_to_sympy(expr) ==
    IF Len(expr.leaves) = 1
    THEN Expression_to_sympy(Power(Call("Cosh", expr.leaves[1]), Integer(-1)))
    ELSE None

Csch_to_sympy(expr) ==
    IF Len(expr.leaves) = 1
    THEN Expression_to_sympy(Power(Call("Sinh", expr.leaves[1]), Integer(-1)))
    ELSE None

\* ArcSech.to_sympy testing for at least one argument
ArcSech_to_sympy_any(expr) ==
    IF Len(expr.leaves) >= 1
    THEN Expression_to_sympy(Call("ArcCosh", Power(expr.leaves[1], Integer(-1))))
    ELSE None

ArcSech_to_sympy(expr) ==
    IF Len(expr.leaves) = 1
    THEN Expression_to_sympy(Call("ArcCosh", Power(expr.leaves[1], Integer(-1))))
    ELSE None

ArcCsch_to_sympy(expr) ==
    IF Len(expr.leaves) = 1
    THEN Expression_to_sympy(Call("ArcSinh", Power(expr.leaves[1], Integer(-1))))
    ELSE None

\* the classes that define to_sympy
Bridged == {"Sec", "Csc", "ArcSec", "ArcCsc", "Sech", "Csch", "ArcSech", "ArcCsch"}

to_sympy(expr) ==
    CASE expr.head = "Sec" -> Sec_to_sympy(expr)
      [] expr.head = "Csc" -> Csc_to_sympy(expr)
      [] expr.head = "ArcSec" -> ArcSec_to_sympy(expr)
      [] expr.head = "ArcCsc" -> ArcCsc_to_sympy(expr)
      [] expr.head = "Sech" -> Sech_to_sympy(expr)
      [] expr.head = "Csch" -> Csch_to_sympy(expr)
      [] expr.head = "ArcSech" -> ArcSech_to_sympy(expr)
      [] expr.head = "ArcCsch" -> ArcCsch_to_sympy(expr)

(***************************************************************************)
(* Precision.  get_precision turns the precision argument of N into a bit  *)
(* count, or refuses (None) an argument that is not a number of digits.    *)
(***************************************************************************)
get_precision(prec) ==
    IF prec.head = "Integer" /\ prec.num > 0
    THEN Integer(((prec.num + 1) * 33219 + 5000) \div 10000)
    ELSE None

\* Real(mpmath2gmpy(mpmath.pi)), Real(mpmath2gmpy(mpmath.e)): the constant
\* rounded to the working precision in force when it is converted
RealConstant(c, bits) ==
    [head |-> "Real", name |-> c, num |-> 0, den |-> 1, prec |-> bits, leaves |-> <<>>]

(***************************************************************************)
(* Inputs.                                                                 *)
(***************************************************************************)
\* precisions (bits) of inexact arguments and of the scopes the host opens
RealPrecs == {53, 80}

HostPrecs == {30, 64}

Ints == {Integer(n) : n \in -MaxN .. MaxN}

Reals == {Real(v[1], v[2], b) : v \in {<<0, 1>>, <<1, 2>>, <<1, 1>>}, b \in RealPrecs}

\* n*Pi and E^n as the host hands them over: 0*Pi is 0, 1*Pi is Pi, E^0 is 1, E^1 is E
PiMultiples == {Normalize(Times(Integer(n), SymPi)) : n \in -MaxN .. MaxN}

EPowers == {Normalize(Power(SymE, Integer(n))) : n \in -MaxN .. MaxN}

Args ==
    Ints \cup Reals \cup PiMultiples \cup EPowers
         \cup {HalfPi, Symbol("x"), Symbol("GoldenRatio")}

Args2 == {Integer(2), Symbol("x"), Symbol("GoldenRatio"), Real(1, 2, 53)}

Calls ==
    {Call(f, a) : f \in Heads, a \in Args}
        \cup {Expression(f, <<a, b>>) : f \in Heads, a \in Args2, b \in Args2}
        \cup {Expression(f, <<>>) : f \in Heads}

\* the second argument of N[Pi, prec], N[E, prec]
PrecisionArgs == {Integer(d) : d \in 1 .. MaxDigits} \cup {Symbol("x"), String("ten")}

BridgeArgs == {Symbol("x"), Integer(1), Real(1, 1, 53)}

BridgeLeaves == UNION {[1 .. n -> BridgeArgs] : n \in 0 .. MaxLeaves}

(***************************************************************************)
(* State.                                                                  *)
(***************************************************************************)
VARIABLES
    pc,         \* where the host is: idle, dispatch, numeric, numeric_exit,
                \* applyN_body, applyN_exit, returned, done
    call,       \* the request being served (None when idle)
    cur,        \* the expression under evaluation
    fired,      \* the table entries applied so far, <<head, position>> each
    calls,      \* the mpmath primitives invoked so far
    err,        \* "", "backend" (no finite value) or "exception" (raised in a scope)
    result,     \* what the request returned
    outcome,    \* how the request ended
    ctx_prec,   \* mpmath's working precision, mp.prec
    scopes,     \* the precisions saved by the open workprec scopes, innermost last
    before,     \* working precision and open scopes when the request was made
    requested   \* what get_precision made of the request's precision argument

vars == <<pc, call, cur, fired, calls, err, result, outcome, ctx_prec, scopes,
          before, requested>>

\* no request is being served
NoBefore == [prec |-> 0, scopes |-> <<>>]

Init ==
    /\ pc = "idle"
    /\ call = None
    /\ cur = None
    /\ fired = <<>>
    /\ calls = <<>>
    /\ err = ""
    /\ result = None
    /\ outcome = ""
    /\ ctx_prec = 53
    /\ scopes = <<>>
    /\ before = NoBefore
    /\ requested = None

\* `with workprec(p):` on entry saves mp.prec and sets it to p
workprec_enter(p) ==
    /\ scopes' = Append(scopes, ctx_prec)
    /\ ctx_prec' = p

\* and on every exit puts the saved precision back
workprec_exit ==
    /\ ctx_prec' = scopes[Len(scopes)]
    /\ scopes' = SubSeq(scopes, 1, Len(scopes) - 1)

(***************************************************************************)
(* The host opens and closes precision scopes of its own around calls.     *)
(***************************************************************************)
HostEnter(p) ==
    /\ pc = "idle"
    /\ Len(scopes) < MaxDepth
    /\ workprec_enter(p)
    /\ UNCHANGED <<pc, call, cur, fired, calls, err, result, outcome, before, requested>>

HostExit ==
    /\ pc = "idle"
    /\ Len(scopes) > 0
    /\ workprec_exit
    /\ UNCHANGED <<pc, call, cur, fired, calls, err, result, outcome, before, requested>>

(***************************************************************************)
(* Pi.apply_N and E.apply_N, 'N[Pi, prec_]' and 'N[E, prec_]'.             *)
(***************************************************************************)
\* apply_N falling back to machine precision when get_precision refuses
apply_N_default(c, prec) ==
    /\ pc = "idle"
    /\ call' = Expression("N", <<Symbol(c), prec>>)
    /\ before' = [prec |-> ctx_prec, scopes |-> scopes]
    /\ requested' = get_precision(prec)
    /\ workprec_enter(IF get_precision(prec) # None THEN get_precision(prec).num ELSE 53)
    /\ pc' = "applyN_body"
    /\ UNCHANGED <<result, outcome, cur, fired, calls, err>>

apply_N(c, prec) ==
    /\ pc = "idle"
    /\ call' = Expression("N", <<Symbol(c), prec>>)
    /\ before' = [prec |-> ctx_prec, scopes |-> scopes]
    /\ requested' = get_precision(prec)
    /\ IF get_precision(prec) # None
       THEN /\ workprec_enter(get_precision(prec).num)
            /\ pc' = "applyN_body"
            /\ UNCHANGED <<result, outcome>>
       ELSE /\ pc' = "returned"
            /\ result' = None
            /\ outcome' = "no_value"
            /\ UNCHANGED <<ctx_prec, scopes>>
    /\ UNCHANGED <<cur, fired, calls, err>>

Pi_apply_N(prec) == apply_N("Pi", prec)

E_apply_N(prec) == apply_N("E", prec)

\* return Real(mpmath2gmpy(mpmath.pi))
apply_N_convert ==
    /\ pc = "applyN_body"
    /\ result' = RealConstant(call.leaves[1].name, ctx_prec)
    /\ pc' = "applyN_exit"
    /\ UNCHANGED <<call, cur, fired, calls, err, outcome, ctx_prec, scopes, before, requested>>

\* an exception raised while the scope is open
apply_N_raise ==
    /\ pc = "applyN_body"
    /\ err' = "exception"
    /\ pc' = "applyN_exit"
    /\ UNCHANGED <<call, cur, fired, calls, result, outcome, ctx_prec, scopes, before, requested>>

\* a scope that puts the precision back only when the body returns
apply_N_exit_leak ==
    /\ pc = "applyN_exit"
    /\ IF err = "exception"
       THEN /\ scopes' = SubSeq(scopes, 1, Len(scopes) - 1)
            /\ UNCHANGED ctx_prec
       ELSE workprec_exit
    /\ outcome' = IF err = "exception" THEN "raised" ELSE "value"
    /\ pc' = "returned"
    /\ UNCHANGED <<call, cur, fired, calls, err, result, before, requested>>

\* leaving the with block, by return or by the exception
apply_N_exit ==
    /\ pc = "applyN_exit"
    /\ workprec_exit
    /\ outcome' = IF err = "exception" THEN "raised" ELSE "value"
    /\ pc' = "returned"
    /\ UNCHANGED <<call, cur, fired, calls, err, result, before, requested>>

(***************************************************************************)
(* to_sympy of a bridged class, called by the symbolic subsystems.         *)
(***************************************************************************)
ToSympy(expr) ==
    /\ pc = "idle"
    /\ call' = expr
    /\ before' = [prec |-> ctx_prec, scopes |-> scopes]
    /\ result' = to_sympy(expr)
    /\ outcome' = "to_sympy"
    /\ pc' = "returned"
    /\ UNCHANGED <<cur, fired, calls, err, ctx_prec, scopes, requested>>

\* the caller takes the result; the host is idle again
Return ==
    /\ pc = "returned"
    /\ pc' = "idle"
    /\ call' = None
    /\ result' = None
    /\ outcome' = ""
    /\ err' = ""
    /\ requested' = None
    /\ before' = NoBefore
    /\ UNCHANGED <<cur, fired, calls, ctx_prec, scopes>>

(***************************************************************************)
(* Evaluation of a call headed by a class of the file.  The host tries the *)
(* registered entries of the head's table and rewrites by the first whose  *)
(* pattern matches.  `rules` is a dict: the order in which the host gets   *)
(* its entries is the dict's, not the order they are written in, so the    *)
(* entry tried first among those that match may be any of them.  A call no *)
(* entry matches goes to _MPMathFunction's numeric path when its argument  *)
(* is one inexact number, and stays as it is otherwise.  An evaluation     *)
(* ends the behaviour: the registry does not change while the host runs.   *)
(***************************************************************************)
NumericArg(e) ==
    /\ e.head \in MPMathFunctions
    /\ Len(e.leaves) = 1
    /\ IsInexact(e.leaves[1])

\* whether the host dispatches on e again
Dispatchable(e) == ~IsAtom(e) /\ e.head \in Heads

\* the result of the backend at the precision of the scope it was computed in
Number_from_mpmath(v, bits) ==
    [head |-> "Real", name |-> v.head, num |-> v.leaves[1].num, den |-> v.leaves[1].den,
     prec |-> bits, leaves |-> <<>>]

Evaluate(e) ==
    /\ pc = "idle"
    /\ call' = e
    /\ cur' = e
    /\ before' = [prec |-> ctx_prec, scopes |-> scopes]
    /\ pc' = "dispatch"
    /\ UNCHANGED <<fired, calls, err, result, outcome, ctx_prec, scopes, requested>>

RuleDispatch ==
    /\ pc = "dispatch"
    /\ \E i \in Matching(cur) :
          /\ cur' = Rewrite(cur, i)
          /\ fired' = Append(fired, <<cur.head, i>>)
          /\ IF Dispatchable(Rewrite(cur, i))
             THEN /\ pc' = "dispatch"
                  /\ UNCHANGED <<result, outcome>>
             ELSE /\ pc' = "done"
                  /\ result' = Rewrite(cur, i)
                  /\ outcome' = "rewritten"
    /\ UNCHANGED <<call, calls, err, ctx_prec, scopes, before, requested>>

\* _MPMathFunction.apply: with workprec(z.get_precision()):
NumericEnter ==
    /\ pc = "dispatch"
    /\ Matching(cur) = {}
    /\ NumericArg(cur)
    /\ workprec_enter(cur.leaves[1].prec)
    /\ pc' = "numeric"
    /\ UNCHANGED <<call, cur, fired, calls, err, result, outcome, before, requested>>

\* result = self.eval(z)
NumericEval ==
    /\ pc = "numeric"
    /\ LET v == eval(cur.head, cur.leaves[1])
       IN  IF v = None
           THEN UNCHANGED <<calls, err, result>>
           ELSE /\ calls' = Append(calls, v.head)
                /\ IF BackendPole(v.head, cur.leaves[1])
                   THEN /\ err' = "backend"
                        /\ UNCHANGED result
                   ELSE /\ result' = Number_from_mpmath(v, ctx_prec)
                        /\ UNCHANGED err
    /\ pc' = "numeric_exit"
    /\ UNCHANGED <<call, cur, fired, outcome, ctx_prec, scopes, before, requested>>

\* the scope is left; a backend failure is signalled as a domain failure
NumericExit ==
    /\ pc = "numeric_exit"
    /\ workprec_exit
    /\ outcome' = IF err = "backend" THEN "domain_failure"
                  ELSE IF result = None THEN "unevaluated" ELSE "numeric"
    /\ pc' = "done"
    /\ UNCHANGED <<call, cur, fired, calls, err, result, before, requested>>

\* no entry matches and there is no numeric path: the call is a normal form
Unevaluated ==
    /\ pc = "dispatch"
    /\ Matching(cur) = {}
    /\ ~NumericArg(cur)
    /\ result' = cur
    /\ outcome' = IF fired = <<>> THEN "unevaluated" ELSE "rewritten"
    /\ pc' = "done"
    /\ UNCHANGED <<call, cur, fired, calls, err, ctx_prec, scopes, before, requested>>

Next ==
    \/ \E p \in HostPrecs : HostEnter(p)
    \/ HostExit
    \/ \E prec \in PrecisionArgs : Pi_apply_N(prec)
    \/ \E prec \in PrecisionArgs : E_apply_N(prec)
    \/ apply_N_convert
    \/ apply_N_raise
    \/ apply_N_exit
    \/ \E f \in Bridged : \E ls \in BridgeLeaves : ToSympy(Expression(f, ls))
    \/ Return
    \/ \E e \in Calls : Evaluate(e)
    \/ RuleDispatch
    \/ NumericEnter
    \/ NumericEval
    \/ NumericExit
    \/ Unevaluated

Spec == Init /\ [][Next]_vars

(***************************************************************************)
(* Properties.                                                             *)
(***************************************************************************)
IsRealZero(e) == e.head = "Real" /\ e.num = 0

\* a request served by Pi.apply_N or E.apply_N
IsApplyN(e) == e.head = "N" /\ Len(e.leaves) = 2 /\ e.leaves[1] \in {SymPi, SymE}

\* the least element of a non-empty set of positions
Least(S) == CHOOSE i \in S : \A j \in S : i <= j

\* C1: rule-table reduction keeps the three singularity outcomes apart:
\* Tan[Pi/2], Csc[0], Cot[0] and Coth[0] end as ComplexInfinity, ArcSech[0]
\* as Infinity, Log of an inexact zero as Indeterminate and Log of the exact
\* zero as DirectedInfinity[-1]; each is reached by a rule, without the
\* numeric callback, and as no other value.
C1_SingularityOutcomes ==
    (pc = "done" /\ Len(call.leaves) = 1) =>
        /\ call \in {Call("Tan", HalfPi), Call("Csc", Integer(0)),
                     Call("Cot", Integer(0)), Call("Coth", Integer(0))}
              => (result = ComplexInfinity /\ outcome = "rewritten" /\ calls = <<>>)
        /\ call = Call("ArcSech", Integer(0))
              => (result = Infinity /\ outcome = "rewritten" /\ calls = <<>>)
        /\ (call.head = "Log" /\ IsRealZero(call.leaves[1]))
              => (result = Indeterminate /\ outcome = "rewritten" /\ calls = <<>>)
        /\ call = Call("Log", Integer(0))
              => (result = Call("DirectedInfinity", Integer(-1))
                  /\ outcome = "rewritten" /\ calls = <<>>)

\* C1 witness: Log of an inexact zero has been reduced to Indeterminate
C1_Witness ==
    /\ pc = "done"
    /\ call = Call("Log", Real(0, 1, 80))
    /\ result = Indeterminate
    /\ fired = << <<"Log", 2>> >>

\* the argument n*Pi as the host hands it to Sin and Cos
IntegerTimesPi(n) == Normalize(Times(Integer(n), SymPi))

\* C2: for every integer n, 0 and 1 included, Sin[n*Pi] is rewritten by a rule
\* to the exact 0 and Cos[n*Pi] to the exact (-1)^n; the numeric callback is
\* not invoked on the way and the result is not an inexact number.
C2_IntegerMultiplesOfPi ==
    \A n \in -MaxN .. MaxN :
        /\ call \in {Call("Sin", IntegerTimesPi(n)), Call("Cos", IntegerTimesPi(n))}
              => (calls = <<>> /\ pc \notin {"numeric", "numeric_exit"})
        /\ (pc = "done" /\ call = Call("Sin", IntegerTimesPi(n)))
              => (result = Integer(0) /\ Len(fired) = 1 /\ outcome = "rewritten")
        /\ (pc = "done" /\ call = Call("Cos", IntegerTimesPi(n)))
              => (result = Integer(IF n % 2 = 0 THEN 1 ELSE -1)
                  /\ Len(fired) = 1 /\ outcome = "rewritten")

\* C2 witness: Cos[2 Pi] has been rewritten by the integer-multiple entry to 1,
\* and Sin[3 Pi] can be evaluated
C2_Witness ==
    /\ pc = "done"
    /\ call = Call("Cos", Times(Integer(2), SymPi))
    /\ fired = << <<"Cos", 2>> >>
    /\ result = Integer(1)

\* C3: the precision scope of N[Pi, prec] and N[E, prec] is stack-disciplined:
\* while the scope is open the working precision is the requested one and the
\* constant is converted at exactly that precision; when the call has
\* returned, by a value or by an exception raised in the scope, the working
\* precision and the enclosing scopes are those the caller had before it.
C3_PrecisionScopes ==
    /\ pc \in {"applyN_body", "applyN_exit"}
          => /\ requested # None
             /\ ctx_prec = requested.num
             /\ scopes = Append(before.scopes, before.prec)
    /\ (pc = "applyN_exit" /\ err = "")
          => result = RealConstant(call.leaves[1].name, get_precision(call.leaves[2]).num)
    /\ (pc = "returned" /\ IsApplyN(call))
          => /\ ctx_prec = before.prec
             /\ scopes = before.scopes
             /\ outcome = "value" => result.prec = get_precision(call.leaves[2]).num

\* C3 witness: a call made inside two open scopes has left by an exception
\* and the caller's precision is back
C3_Witness ==
    /\ pc = "returned"
    /\ IsApplyN(call)
    /\ outcome = "raised"
    /\ Len(scopes) = 2
    /\ ctx_prec = before.prec
    /\ ctx_prec # requested.num

\* C4: when get_precision refuses the precision argument, apply_N produces
\* no value, opens no scope, leaves the working precision as it was and does
\* not fall back to some other precision to return a number.
C4_MalformedPrecision ==
    (IsApplyN(call) /\ get_precision(call.leaves[2]) = None) =>
        /\ pc = "returned"
        /\ result = None
        /\ outcome = "no_value"
        /\ ctx_prec = before.prec
        /\ scopes = before.scopes

\* C4 witness: N[E, x] has returned without a value inside an open scope
C4_Witness ==
    /\ pc = "returned"
    /\ call = Expression("N", <<SymE, Symbol("x")>>)
    /\ outcome = "no_value"
    /\ Len(scopes) = 1

\* C5: a numeric backend failure never ends an evaluation otherwise than in
\* a special value: for every class with a numeric callback and every inexact
\* argument at which its primitive has no finite value, the evaluation ends
\* in Infinity, ComplexInfinity or Indeterminate.
C5_BackendFailuresAreConverted ==
    (pc = "done" /\ NumericArg(call)
        /\ BackendPole(eval(call.head, call.leaves[1]).head, call.leaves[1]))
        => (result \in SpecialValues /\ outcome # "domain_failure")

\* the expression the claim names as the bridge of f[x], and the class it is over
ExpectedBridge(f, x) ==
    CASE f = "Sec" -> Power(Call("Cos", x), Integer(-1))
      [] f = "Csc" -> Power(Call("Sin", x), Integer(-1))
      [] f = "ArcSec" -> Call("ArcCos", Power(x, Integer(-1)))
      [] f = "ArcCsc" -> Call("ArcSin", Power(x, Integer(-1)))
      [] f = "Sech" -> Power(Call("Cosh", x), Integer(-1))
      [] f = "Csch" -> Power(Call("Sinh", x), Integer(-1))
      [] f = "ArcSech" -> Call("ArcCosh", Power(x, Integer(-1)))
      [] f = "ArcCsch" -> Call("ArcSinh", Power(x, Integer(-1)))

BridgeOver(f) ==
    CASE f = "Sec" -> "Cos"
      [] f = "Csc" -> "Sin"
      [] f = "ArcSec" -> "ArcCos"
      [] f = "ArcCsc" -> "ArcSin"
      [] f = "Sech" -> "Cosh"
      [] f = "Csch" -> "Sinh"
      [] f = "ArcSech" -> "ArcCosh"
      [] f = "ArcCsch" -> "ArcSinh"

\* C6: to_sympy of each of the eight bridged classes, given a call of exactly
\* one argument x, yields the conversion of the bridge expression over a class
\* that has a backend name of its own (Cos[x]^-1, Sin[x]^-1, ArcCos[x^-1],
\* ArcSin[x^-1], Cosh[x]^-1, Sinh[x]^-1, ArcCosh[x^-1], ArcSinh[x^-1]); given
\* no argument or several it returns nothing.
C6_SymbolicBridges ==
    (pc = "returned" /\ outcome = "to_sympy") =>
        IF Len(call.leaves) = 1
        THEN /\ result = Expression_to_sympy(ExpectedBridge(call.head, call.leaves[1]))
             /\ sympy_name(BridgeOver(call.head)) # ""
             /\ BridgeOver(call.head) \notin Bridged
        ELSE result = None

\* C6 witness: ArcSech[x] has been bridged over ArcCosh
C6_Witness ==
    /\ pc = "returned"
    /\ call = Call("ArcSech", Symbol("x"))
    /\ result = Expression("sympy", <<Symbol("acosh"),
                     Expression("sympy", <<Symbol("Power"), Symbol("x"), Integer(-1)>>)>>)

\* the mpmath primitive that computes the function f
Dedicated(f) ==
    CASE f = "Log" -> "log"
      [] f = "Sin" -> "sin"
      [] f = "Cos" -> "cos"
      [] f = "Tan" -> "tan"
      [] f = "Sec" -> "sec"
      [] f = "Csc" -> "csc"
      [] f = "Cot" -> "cot"
      [] f = "ArcSin" -> "asin"
      [] f = "ArcCos" -> "acos"
      [] f = "ArcTan" -> "atan"
      [] f = "ArcSec" -> "asec"
      [] f = "ArcCsc" -> "acsc"
      [] f = "ArcCot" -> "acot"
      [] f = "Sinh" -> "sinh"
      [] f = "Cosh" -> "cosh"
      [] f = "Tanh" -> "tanh"
      [] f = "Sech" -> "sech"
      [] f = "Csch" -> "csch"
      [] f = "Coth" -> "coth"
      [] f = "ArcSinh" -> "asinh"
      [] f = "ArcCosh" -> "acosh"
      [] f = "ArcTanh" -> "atanh"
      [] f = "ArcSech" -> "asech"
      [] f = "ArcCsch" -> "acsch"
      [] f = "ArcCoth" -> "acoth"

\* C7: the numeric callback of every class makes exactly one backend call,
\* to the primitive dedicated to that class (so no two classes share one).
C7_DedicatedPrimitive ==
    pc = "numeric_exit" => calls = <<Dedicated(cur.head)>>

\* the point of the argument a literal entry is written for
PointOf(f, v) ==
    IF f = "Log" /\ IsRealZero(v) THEN "0."
    ELSE IF v.head \in {"Integer", "Real"} /\ v.num = 0 THEN "0"
    ELSE IF v = Integer(1) THEN "1"
    ELSE IF v = SymPi THEN "Pi"
    ELSE IF v = HalfPi THEN "Pi/2"
    ELSE IF v = SymE THEN "E"
    ELSE "other"

\* the value or limit of each function at those points, a pole as the special
\* value the singularity policy gives it (Log of an inexact zero: Indeterminate)
ReferenceValues ==
    { <<"Log", "0.", Indeterminate>>,
      <<"Log", "0", Call("DirectedInfinity", Integer(-1))>>,
      <<"Log", "1", Integer(0)>>, <<"Log", "E", Integer(1)>>,
      <<"Sin", "0", Integer(0)>>, <<"Sin", "Pi", Integer(0)>>, <<"Sin", "Pi/2", Integer(1)>>,
      <<"Cos", "0", Integer(1)>>, <<"Cos", "Pi", Integer(-1)>>, <<"Cos", "Pi/2", Integer(0)>>,
      <<"Tan", "0", Integer(0)>>, <<"Tan", "Pi/2", ComplexInfinity>>,
      <<"Sec", "0", Integer(1)>>, <<"Csc", "0", ComplexInfinity>>,
      <<"Cot", "0", ComplexInfinity>>,
      <<"ArcSin", "0", Integer(0)>>, <<"ArcSin", "1", HalfPi>>,
      <<"ArcCos", "0", HalfPi>>, <<"ArcCos", "1", Integer(0)>>,
      <<"ArcTan", "0", Integer(0)>>, <<"ArcTan", "1", QuarterPi>>,
      <<"ArcSec", "0", ComplexInfinity>>, <<"ArcSec", "1", Integer(0)>>,
      <<"ArcCsc", "0", ComplexInfinity>>, <<"ArcCsc", "1", HalfPi>>,
      <<"ArcCot", "0", HalfPi>>, <<"ArcCot", "1", QuarterPi>>,
      <<"Csch", "0", ComplexInfinity>>, <<"Coth", "0", ComplexInfinity>>,
      <<"ArcCosh", "0", HalfPiI>>, <<"ArcCoth", "0", HalfPiI>>,
      <<"ArcSech", "0", Infinity>>, <<"ArcCsch", "0", ComplexInfinity>> }

\* the value an expression stands for: N[e, p] approximates e
Denoted(e) == IF e.head = "N" THEN e.leaves[1] ELSE e

\* an entry whose pattern is a literal argument (z:0.0 names it as well)
LiteralEntry(e, i) == DOMAIN Match(rules(e.head)[i].lhs, e).b \subseteq {"z"}

\* C8: every entry F[v] -> r with a literal argument v gives the value or
\* limit of F at v, a pole as the special value of the singularity policy; so
\* the entries for the exact and the inexact zero of one function other than
\* Log give the same value.
C8_RulesAgreeWithValues ==
    (pc = "done" /\ Len(fired) = 1 /\ Len(call.leaves) = 1 /\ LiteralEntry(call, fired[1][2]))
        => <<call.head, PointOf(call.head, call.leaves[1]), Denoted(result)>>
               \in ReferenceValues

C10_OrderIndependence ==
    /\ pc = "dispatch"
          => \A i, j \in Matching(cur) : Rewrite(cur, i) = Rewrite(cur, j)
    /\ Len(fired) = 1 => \A i \in Matching(call) : cur = Rewrite(call, i)

\* C10 witness: Cos[Pi], matched by the literal entry and by the
\* integer-multiple entry, has been rewritten to -1
C10_Witness ==
    /\ pc = "done"
    /\ call = Call("Cos", SymPi)
    /\ Cardinality(Matching(call)) = 2
    /\ result = Integer(-1)

=============================================================================
